---- MODULE Spec2Model ----
(***************************************************************************)
(* Model of the test-complex-skill command line program:                   *)
(*   scripts/main.py                       main()                          *)
(*   scripts/utils/helpers/formatter.py    format_output(message)          *)
(*                                                                         *)
(* Python strings are sequences of code points.  A code point is written   *)
(* as a one-character TLA+ string; the two non-ASCII code points the       *)
(* program meets are written by their names (CheckMark, LoneSurrogate).    *)
(* The standard streams are UTF-8 text streams, CPython's default.         *)
(***************************************************************************)
EXTENDS Integers, Sequences, FiniteSets, TLC

VARIABLES
    argv,        \* the command line after the program name
    file,        \* what the path "cfg.json" names on disk
    pc,          \* position of the single thread in main()
    args_config, \* args.config, <<>> until parse_args has returned
    openHandles, \* number of open handles on the config file
    opened,      \* history: open() has returned a handle in this run
    config,      \* the value json.load returned
    exc,         \* the exception propagating, "none" if there is none
    message,     \* the argument passed to format_output
    result,      \* the value format_output returned
    stdout,      \* code points written to standard output
    stderr,      \* diagnostics written to standard error
    exitCode,    \* the process's exit status, Running before it ends
    steps        \* history: the steps of main() completed so far

vars == <<argv, file, pc, args_config, openHandles, opened, config, exc,
          message, result, stdout, stderr, exitCode, steps>>

-----------------------------------------------------------------------------
(* Bounds *)

MaxArgs == 3       \* longest command line
MaxNameLen == 2    \* longest string value of "name"
MaxInt == 10       \* largest magnitude of an integer value of "name"
MaxLen == 3        \* longest message handed to format_output on its own

-----------------------------------------------------------------------------
(* Strings *)

CheckMark == "U+2705"
LoneSurrogate == "U+D800"
Alphabet == {"o", "k", "\n", LoneSurrogate}

StringsUpTo(n) == UNION {[1..k -> Alphabet] : k \in 0..n}

Repeat(c, n) == [i \in 1..n |-> c]

\* str.split("\n"): the pieces between line feeds
RECURSIVE Split(_)
Split(s) ==
    IF \A i \in 1..Len(s) : s[i] # "\n"
    THEN <<s>>
    ELSE LET i == CHOOSE j \in 1..Len(s) :
                      s[j] = "\n" /\ \A k \in 1..(j - 1) : s[k] # "\n"
         IN <<SubSeq(s, 1, i - 1)>> \o Split(SubSeq(s, i + 1, Len(s)))

\* the lines of a stream in which every line ends with a line feed
StreamLines(s) ==
    IF s = <<>> THEN <<>>
    ELSE LET p == Split(s)
         IN IF s[Len(s)] = "\n" THEN SubSeq(p, 1, Len(p) - 1) ELSE p

\* a UTF-8 text stream encodes every code point except a lone surrogate
Encodable(s) == \A i \in 1..Len(s) : s[i] # LoneSurrogate

IsPrefix(s, t) == Len(s) <= Len(t) /\ SubSeq(t, 1, Len(s)) = s

-----------------------------------------------------------------------------
(* formatter.py *)

\* border = "=" * (len(message) + 2): the two spaces left out of the count
format_output_narrow(m) ==
    LET border == Repeat("=", Len(m) + 2)
    IN border \o <<"\n", "|", " ">> \o m \o <<" ", "|", "\n">> \o border

\* f"{border}\n|{message}|\n{border}": the padding left out of the middle line
format_output_unpadded(m) ==
    LET border == Repeat("=", Len(m) + 4)
    IN border \o <<"\n", "|">> \o m \o <<"|", "\n">> \o border

format_output(m) ==
    LET border == Repeat("=", Len(m) + 4)
    IN border \o <<"\n", "|", " ">> \o m \o <<" ", "|", "\n">> \o border

-----------------------------------------------------------------------------
(* JSON values and their display form *)

JStr(x)  == [kind |-> "str",  s |-> x,    n |-> 0, b |-> FALSE]
JInt(i)  == [kind |-> "int",  s |-> <<>>, n |-> i, b |-> FALSE]
JBool(t) == [kind |-> "bool", s |-> <<>>, n |-> 0, b |-> t]
JNull    == [kind |-> "null", s |-> <<>>, n |-> 0, b |-> FALSE]

NameValues ==
    {JStr(x) : x \in StringsUpTo(MaxNameLen)}
        \cup {JInt(i) : i \in (0 - MaxInt)..MaxInt}
        \cup {JBool(t) : t \in BOOLEAN}
        \cup {JNull}

Digit(d) == <<"0", "1", "2", "3", "4", "5", "6", "7", "8", "9">>[d + 1]

RECURSIVE IntStr(_)
IntStr(i) ==
    IF i < 0 THEN <<"-">> \o IntStr(0 - i)
    ELSE IF i < 10 THEN <<Digit(i)>>
    ELSE IntStr(i \div 10) \o <<Digit(i % 10)>>

\* what an f-string replacement field makes of a JSON value: str(value)
PyStr(v) ==
    CASE v.kind = "str"  -> v.s
      [] v.kind = "int"  -> IntStr(v.n)
      [] v.kind = "bool" -> IF v.b THEN <<"T", "r", "u", "e">>
                                   ELSE <<"F", "a", "l", "s", "e">>
      [] v.kind = "null" -> <<"N", "o", "n", "e">>

Prefix == <<"L", "o", "a", "d", "e", "d", " ",
            "c", "o", "n", "f", "i", "g", ":", " ">>

SuccessLine == <<CheckMark, " ", "C", "o", "m", "p", "l", "e", "x", " ",
                 "s", "k", "i", "l", "l", " ",
                 "e", "x", "e", "c", "u", "t", "e", "d", " ",
                 "s", "u", "c", "c", "e", "s", "s", "f", "u", "l", "l", "y",
                 "!">>

-----------------------------------------------------------------------------
(* The config file *)

\* a document is the text of the file, named by what json.load makes of it
Doc(k, h, v) == [kind |-> k, hasName |-> h, name |-> v]

Documents ==
    {Doc(k, FALSE, JNull) :
        k \in {"undecodable", "malformed", "array", "string", "number", "null"}}
        \cup {Doc("object", FALSE, JNull)}
        \cup {Doc("object", TRUE, v) : v \in NameValues}

NoDoc == Doc("null", FALSE, JNull)

Files ==
    {[status |-> "missing", doc |-> NoDoc],
     [status |-> "unreadable", doc |-> NoDoc]}
        \cup {[status |-> "present", doc |-> d] : d \in Documents}

-----------------------------------------------------------------------------
(* argparse: ArgumentParser with the default -h/--help and a required      *)
(* --config taking one argument                                            *)

Tokens == {"--config", "--help", "cfg.json"}
CommandLines == UNION {[1..k -> Tokens] : k \in 0..MaxArgs}

IsOption(t) == t \in {"--config", "--help"}

Parsed(k, p) == [kind |-> k, path |-> p]

RECURSIVE ParseFrom(_, _, _, _)
ParseFrom(a, i, cfg, extras) ==
    IF i > Len(a)
    THEN IF cfg = <<>> THEN Parsed("error", <<>>)
         ELSE IF extras > 0 THEN Parsed("error", <<>>)
         ELSE Parsed("ok", cfg)
    ELSE IF a[i] = "--help" THEN Parsed("help", <<>>)
    ELSE IF a[i] = "--config"
         THEN IF i + 1 <= Len(a) /\ ~IsOption(a[i + 1])
              THEN ParseFrom(a, i + 2, <<a[i + 1]>>, extras)
              ELSE Parsed("error", <<>>)
    ELSE ParseFrom(a, i + 1, cfg, extras + 1)

parse_args(a) == ParseFrom(a, 1, <<>>, 0)

-----------------------------------------------------------------------------
(* main.py *)

Running == -1

Init ==
    /\ argv \in CommandLines
    /\ file \in Files
    /\ pc = "parse_args"
    /\ args_config = <<>>
    /\ openHandles = 0
    /\ opened = FALSE
    /\ config = NoDoc
    /\ exc = "none"
    /\ message = <<>>
    /\ result = <<>>
    /\ stdout = <<>>
    /\ stderr = <<>>
    /\ exitCode = Running
    /\ steps = <<>>

\* lines 8-10: build the parser and parse the command line.  The help
\* action prints the help text (here its first word) and exits 0; a parse
\* error prints usage and the error to standard error and exits 2.
ParseArgs ==
    /\ pc = "parse_args"
    /\ LET r == parse_args(argv)
       IN CASE r.kind = "help" ->
                 /\ stdout' = <<"u", "s", "a", "g", "e", ":", "\n">>
                 /\ exitCode' = 0
                 /\ pc' = "exited"
                 /\ UNCHANGED <<stderr, args_config, steps>>
            [] r.kind = "error" ->
                 /\ stderr' = Append(stderr, "usage error")
                 /\ exitCode' = 2
                 /\ pc' = "exited"
                 /\ UNCHANGED <<stdout, args_config, steps>>
            [] r.kind = "ok" ->
                 /\ args_config' = r.path
                 /\ steps' = Append(steps, "parse_args")
                 /\ pc' = "open"
                 /\ UNCHANGED <<stdout, stderr, exitCode>>
    /\ UNCHANGED <<argv, file, openHandles, opened, config, exc, message,
                   result>>

\* an open() failure answered by returning from main() instead of raising
OpenOrReturn ==
    /\ pc = "open"
    /\ IF file.status = "present"
       THEN /\ openHandles' = openHandles + 1
            /\ opened' = TRUE
            /\ steps' = Append(steps, "open")
            /\ pc' = "load"
       ELSE /\ pc' = "return"
            /\ UNCHANGED <<openHandles, opened, steps>>
    /\ UNCHANGED <<argv, file, args_config, config, exc, message, result,
                   stdout, stderr, exitCode>>

\* line 12: open(args.config)
Open ==
    /\ pc = "open"
    /\ IF file.status = "present"
       THEN /\ openHandles' = openHandles + 1
            /\ opened' = TRUE
            /\ steps' = Append(steps, "open")
            /\ pc' = "load"
            /\ exc' = exc
       ELSE /\ exc' = IF file.status = "missing" THEN "FileNotFoundError"
                      ELSE "PermissionError"
            /\ pc' = "uncaught"
            /\ UNCHANGED <<openHandles, opened, steps>>
    /\ UNCHANGED <<argv, file, args_config, config, message, result, stdout,
                   stderr, exitCode>>

\* line 13: config = json.load(f)
Load ==
    /\ pc = "load"
    /\ IF file.doc.kind = "undecodable"
       THEN /\ exc' = "UnicodeDecodeError"
            /\ UNCHANGED <<config, steps>>
       ELSE IF file.doc.kind = "malformed"
       THEN /\ exc' = "JSONDecodeError"
            /\ UNCHANGED <<config, steps>>
       ELSE /\ config' = file.doc
            /\ steps' = Append(steps, "load")
            /\ exc' = exc
    /\ pc' = "with_exit"
    /\ UNCHANGED <<argv, file, args_config, openHandles, opened, message,
                   result, stdout, stderr, exitCode>>

\* f.close() written after json.load instead of a with block: skipped when
\* json.load raises
CloseOnSuccessOnly(h, e) == IF e = "none" THEN h - 1 ELSE h

\* what leaving the with block does to the handle count
CloseOnExit(h, e) == h - 1

\* lines 12-13: the with statement closes f however its body ended
WithExit ==
    /\ pc = "with_exit"
    /\ openHandles' = CloseOnExit(openHandles, exc)
    /\ IF exc = "none"
       THEN /\ steps' = Append(steps, "close")
            /\ pc' = "format"
       ELSE /\ pc' = "uncaught"
            /\ steps' = steps
    /\ UNCHANGED <<argv, file, args_config, opened, config, exc, message,
                   result, stdout, stderr, exitCode>>

\* config.get('name'): a missing key reads as None instead of raising
LookupGet(c) == IF c.kind = "object" THEN "found" ELSE "TypeError"

\* config['name']: the value, or the exception the subscript raises
Lookup(c) ==
    IF c.kind = "object"
    THEN IF c.hasName THEN "found" ELSE "KeyError"
    ELSE "TypeError"

\* format_output(...) called without print: the block is never written
FormatUnprinted ==
    /\ pc = "format"
    /\ IF Lookup(config) = "found"
       THEN /\ message' = Prefix \o PyStr(config.name)
            /\ result' = format_output(Prefix \o PyStr(config.name))
            /\ steps' = Append(steps, "lookup")
            /\ pc' = "print_success"
            /\ exc' = exc
       ELSE /\ exc' = Lookup(config)
            /\ pc' = "uncaught"
            /\ UNCHANGED <<message, result, steps>>
    /\ UNCHANGED <<argv, file, args_config, openHandles, opened, config,
                   stdout, stderr, exitCode>>

\* line 15: evaluate format_output(f"Loaded config: {config['name']}")
Format ==
    /\ pc = "format"
    /\ IF Lookup(config) = "found"
       THEN /\ message' = Prefix \o PyStr(config.name)
            /\ result' = format_output(Prefix \o PyStr(config.name))
            /\ steps' = Append(steps, "lookup")
            /\ pc' = "print_block"
            /\ exc' = exc
       ELSE /\ exc' = Lookup(config)
            /\ pc' = "uncaught"
            /\ UNCHANGED <<message, result, steps>>
    /\ UNCHANGED <<argv, file, args_config, openHandles, opened, config,
                   stdout, stderr, exitCode>>

\* print(s, end=""): the line feed left out
print_no_end(s, next, step) ==
    IF Encodable(s)
    THEN /\ stdout' = stdout \o s
         /\ steps' = Append(steps, step)
         /\ pc' = next
         /\ exc' = exc
    ELSE /\ exc' = "UnicodeEncodeError"
         /\ pc' = "uncaught"
         /\ UNCHANGED <<stdout, steps>>

\* print(s): s and a line feed reach the stream, or encoding s raises
\* before anything is written
print(s, next, step) ==
    IF Encodable(s)
    THEN /\ stdout' = stdout \o s \o <<"\n">>
         /\ steps' = Append(steps, step)
         /\ pc' = next
         /\ exc' = exc
    ELSE /\ exc' = "UnicodeEncodeError"
         /\ pc' = "uncaught"
         /\ UNCHANGED <<stdout, steps>>

\* line 15: print the formatted block
PrintBlock ==
    /\ pc = "print_block"
    /\ print(result, "print_success", "print_block")
    /\ UNCHANGED <<argv, file, args_config, openHandles, opened, config,
                   message, result, stderr, exitCode>>

\* line 16: print the success line
PrintSuccess ==
    /\ pc = "print_success"
    /\ print(SuccessLine, "return", "print_success")
    /\ UNCHANGED <<argv, file, args_config, openHandles, opened, config,
                   message, result, stderr, exitCode>>

\* lines 18-19: main() returns and the interpreter exits
Return ==
    /\ pc = "return"
    /\ exitCode' = 0
    /\ pc' = "exited"
    /\ UNCHANGED <<argv, file, args_config, openHandles, opened, config, exc,
                   message, result, stdout, stderr, steps>>

\* the body of main() wrapped in try/except that logs and returns normally
TracebackSwallowed(e) == 0

\* the exit status of an interpreter that ends with exception e uncaught
TracebackStatus(e) == 1

\* no handler in main(): the interpreter prints the traceback and exits 1
Uncaught ==
    /\ pc = "uncaught"
    /\ stderr' = Append(stderr, exc)
    /\ exitCode' = TracebackStatus(exc)
    /\ pc' = "exited"
    /\ UNCHANGED <<argv, file, args_config, openHandles, opened, config, exc,
                   message, result, stdout, steps>>

Next ==
    \/ ParseArgs
    \/ Open
    \/ Load
    \/ WithExit
    \/ Format
    \/ PrintBlock
    \/ PrintSuccess
    \/ Return
    \/ Uncaught

Spec == Init /\ [][Next]_vars

-----------------------------------------------------------------------------
(* format_output on its own: every message up to MaxLen code points *)

InitFmt ==
    /\ argv = <<>>
    /\ file = [status |-> "missing", doc |-> NoDoc]
    /\ pc = "call"
    /\ args_config = <<>>
    /\ openHandles = 0
    /\ opened = FALSE
    /\ config = NoDoc
    /\ exc = "none"
    /\ message \in StringsUpTo(MaxLen)
    /\ result = <<>>
    /\ stdout = <<>>
    /\ stderr = <<>>
    /\ exitCode = Running
    /\ steps = <<>>

FormatCall ==
    /\ pc = "call"
    /\ result' = format_output(message)
    /\ pc' = "returned"
    /\ UNCHANGED <<argv, file, args_config, openHandles, opened, config, exc,
                   message, stdout, stderr, exitCode, steps>>

NextFmt == FormatCall

SpecFmt == InitFmt /\ [][NextFmt]_vars

-----------------------------------------------------------------------------
(* Properties *)

Did(step) == \E i \in 1..Len(steps) : steps[i] = step

LineFeeds(s) == Cardinality({i \in 1..Len(s) : s[i] = "\n"})

\* the run got past parse_args with the path of the config file
RanWithConfig == parse_args(argv).kind = "ok"

HelpRequested == parse_args(argv).kind = "help"

\* the file holds a JSON object with a name key
HasName == file.status = "present" /\ file.doc.kind = "object"
               /\ file.doc.hasName

\* steps 1-3 all succeed on this run's inputs: the arguments parse, the file
\* opens, reads and parses as JSON, and the lookup of name finds a value
StepsSucceed ==
    /\ RanWithConfig
    /\ file.status = "present"
    /\ file.doc.kind \notin {"undecodable", "malformed"}
    /\ Lookup(file.doc) = "found"

ThreeLineBlock(m, r) ==
    LET l == Split(r)
    IN /\ Len(l) = 3
       /\ l[1] = l[3]
       /\ Len(l[1]) = Len(m) + 4
       /\ \A i \in 1..Len(l[1]) : l[1][i] = "="
       /\ l[2] = <<"|", " ">> \o m \o <<" ", "|">>

\* C1, as stated: for every string m, format_output(m) is exactly 3 lines,
\* lines 1 and 3 are equal, line 1 is len(m)+4 '=' characters and line 2 is
\* "| " + m + " |".
C1_AsStated == pc = "returned" => ThreeLineBlock(message, result)

\* C1, amended: for every string m that holds no line feed, format_output(m)
\* is exactly 3 lines, lines 1 and 3 are equal, line 1 is len(m)+4 '='
\* characters and line 2 is "| " + m + " |".
C1_BlockOfLineFeedFreeMessage ==
    (pc = "returned" /\ LineFeeds(message) = 0)
        => ThreeLineBlock(message, result)

C1_Witness ==
    /\ pc = "returned"
    /\ LineFeeds(message) = 0
    /\ Len(message) >= 2

\* C2: a run with --config naming a file that holds a JSON object with a
\* name key ends with format_output("Loaded config: " + name) and then the
\* success line on standard output, and with exit status 0.
C2_PrintsBlockAndSucceeds ==
    (pc = "exited" /\ RanWithConfig /\ HasName)
        => /\ stdout = format_output(Prefix \o PyStr(file.doc.name))
                           \o <<"\n">> \o SuccessLine \o <<"\n">>
           /\ exitCode = 0

\* C3, as stated: the exit status is 0 exactly when argument parsing, file
\* open/read, JSON parsing and the name lookup all succeed; any failure among
\* them ends the process with a non-zero status and a diagnostic.
C3_AsStated ==
    pc = "exited"
        => /\ (exitCode = 0) <=> StepsSucceed
           /\ ~StepsSucceed => (exitCode # 0 /\ stderr # <<>>)

\* C3, amended: the exit status is 0 exactly when the parser met -h/--help
\* (usage is printed, the file is never opened) or steps 1-3 all succeeded
\* and both prints succeeded; any other run ends with a non-zero status and
\* exactly one diagnostic on standard error, no step having run twice.
C3_ExitStatus ==
    pc = "exited"
        => /\ (exitCode = 0)
                 <=> \/ HelpRequested
                     \/ StepsSucceed /\ Did("print_block")
                            /\ Did("print_success")
           /\ exitCode # 0 => (exitCode \in {1, 2} /\ Len(stderr) = 1)
           /\ exitCode = 0 => stderr = <<>>
           /\ (~StepsSucceed /\ ~HelpRequested) => exitCode # 0
           /\ HelpRequested => ~opened

C3_Witness ==
    /\ pc = "exited"
    /\ HelpRequested
    /\ exitCode = 0
    /\ Len(argv) = 3
    /\ argv[1] = "--config"

\* C4: a run whose --config path names a missing file ends with a non-zero
\* exit status and without any output of format_output on standard output.
C4_MissingFile ==
    (pc = "exited" /\ RanWithConfig /\ file.status = "missing")
        => /\ exitCode # 0
           /\ stdout = <<>>
           /\ result = <<>>

C4_Witness ==
    /\ pc = "exited"
    /\ args_config = <<"cfg.json">>
    /\ file.status = "missing"
    /\ stderr = <<"FileNotFoundError">>

\* C5: a run on a file that parses as a JSON object without a name key ends
\* with a non-zero exit status: the lookup fails and neither the formatted
\* block nor the success line is printed.
C5_MissingName ==
    (pc = "exited" /\ RanWithConfig /\ file.status = "present"
         /\ file.doc.kind = "object" /\ ~file.doc.hasName)
        => /\ exitCode # 0
           /\ exc = "KeyError"
           /\ ~Did("print_block")
           /\ ~Did("print_success")
           /\ stdout = <<>>

C5_Witness ==
    /\ pc = "exited"
    /\ config = Doc("object", FALSE, JNull)
    /\ stderr = <<"KeyError">>

\* a run that loaded a config, printed twice and exited 0
Successful == pc = "exited" /\ exitCode = 0 /\ Did("print_success")

\* C6, as stated: on a successful run standard output is two lines.
C6_AsStated == Successful => Len(StreamLines(stdout)) = 2

\* C6, amended: on a successful run standard output is the output of two
\* print calls, the bordered block and then the success line as the last
\* line: four lines when the name's display form holds no line feed, one
\* more for each line feed it holds.
C6_TwoPrints ==
    Successful
        => /\ StreamLines(stdout) = Split(result) \o <<SuccessLine>>
           /\ result = format_output(message)
           /\ Len(StreamLines(stdout)) = 4 + LineFeeds(message)

C6_Witness ==
    /\ Successful
    /\ config.name = JStr(<<"o", "k">>)
    /\ Len(StreamLines(stdout)) = 4

\* C7: format_output has no error conditions: it returns for every string,
\* the empty one included; format_output("") is a border of 4 '=' around
\* "|  |" and format_output("ok") is "======\n| ok |\n======".
C7_TotalAndExamples ==
    /\ pc = "call" => ENABLED FormatCall
    /\ pc = "returned" => Len(result) = 3 * Len(message) + 14
    /\ (pc = "returned" /\ message = <<>>)
           => result = <<"=", "=", "=", "=", "\n",
                         "|", " ", " ", "|", "\n",
                         "=", "=", "=", "=">>
    /\ (pc = "returned" /\ message = <<"o", "k">>)
           => result = <<"=", "=", "=", "=", "=", "=", "\n",
                         "|", " ", "o", "k", " ", "|", "\n",
                         "=", "=", "=", "=", "=", "=">>

C7_Witness ==
    /\ pc = "returned"
    /\ message = <<"o", "k">>
    /\ Len(result) = 20

\* C9: at most one handle on the config file is ever open, and once the with
\* block is left the handle is closed: before the block is printed and
\* before the process ends, also when json.load raised.
C9_HandleScoped ==
    /\ openHandles \in {0, 1}
    /\ openHandles = 1 => pc \in {"load", "with_exit"}
    /\ pc \in {"format", "print_block", "print_success", "return",
               "uncaught", "exited"} => openHandles = 0

C9_Witness ==
    /\ pc = "exited"
    /\ opened
    /\ exc = "JSONDecodeError"
    /\ openHandles = 0

Order == <<"parse_args", "open", "load", "close", "lookup", "print_block",
           "print_success">>

\* C10: the steps of a run are a prefix of parse arguments, open, load,
\* close, look up name, print block, print success line: the success line
\* is printed only after the block, each at most once, and never in a run
\* that ends with a non-zero exit status.
C10_StepOrder ==
    /\ IsPrefix(steps, Order)
    /\ Did("print_success") => Did("print_block")
    /\ ~HelpRequested
           => stdout = (IF Did("print_block") THEN result \o <<"\n">>
                        ELSE <<>>)
                       \o (IF Did("print_success")
                           THEN SuccessLine \o <<"\n">> ELSE <<>>)
    /\ (pc = "exited" /\ exitCode # 0) => ~Did("print_success")

C10_Witness ==
    /\ pc = "exited"
    /\ steps = Order
    /\ exitCode = 0

====
